---- MODULE Spec2Model ----
(***************************************************************************)
(* On-chain deposit reconciliation engine of web3-marketplace              *)
(* (src/src/lib/depositScanner.ts): runDepositScanner with its scan,       *)
(* detection, confirmation and crediting steps, over the tables it reads   *)
(* and writes.                                                             *)
(*                                                                         *)
(* Every `await` of the source is one atomic step of a process: between    *)
(* two awaits of one runDepositScanner invocation any step of another      *)
(* invocation (an overlapping cron tick or a manual trigger) may run.      *)
(* A prisma.$transaction([...]) batch is one step: it commits whole or not *)
(* at all.                                                                 *)
(***************************************************************************)
EXTENDS Integers, Sequences, FiniteSets, TLC

(* ------------------------------ bounds -------------------------------- *)
\* scanner invocations each scanner process may start
MaxPasses == 2
\* operations the store or the node may fail (crediting transactions in
\* SpecFault and SpecNotApplied, row insertions in SpecInsertFault, any
\* operation on a transfer in SpecIsolation)
MaxFaults == 1

\* deposit intents in the store (SpecIntent creates them up to this number)
MaxIntents == 3

\* orders in the store (SpecShop places them up to this number)
MaxOrders == 2

(* ------------------------- program constants -------------------------- *)
confirmationThreshold == 12
ConfirmingThreshold == 6
DefaultLookback == 1000
\* config.rateLimit.depositIntents: intents a user may create per hour
depositIntentsLimit == 5
\* the status of a created deposit intent (column default)
IntentDefaultStatus == "PENDING"

(* --------------------------- the environment --------------------------- *)
\* concurrent runDepositScanner invocations (cron ticks, manual triggers)
Scanners == {"s1", "s2", "s3"}
Wallets == {"w1", "w2"}
\* heights the node reports, in the order the chain reaches them
Heights == <<1000, 1002, 1007>>

\* Transfer logs to the treasury that are on the chain (all mined before
\* the first height the node reports), as scanForDeposits decodes them.
\* The amounts are whole tokens, which formatUnits and parseFloat carry over
\* unchanged.
EvA == [txHash |-> "0xa", logIndex |-> 0, fromAddress |-> "w1", amount |-> 5, blockNumber |-> 985]
EvB == [txHash |-> "0xb", logIndex |-> 0, fromAddress |-> "w1", amount |-> 3, blockNumber |-> 995]
EvC == [txHash |-> "0xb", logIndex |-> 1, fromAddress |-> "w2", amount |-> 2, blockNumber |-> 995]
EvD == [txHash |-> "0xd", logIndex |-> 0, fromAddress |-> "w1", amount |-> 4, blockNumber |-> 998]
EvE == [txHash |-> "0xe", logIndex |-> 0, fromAddress |-> "w2", amount |-> 1, blockNumber |-> 999]
ChainLogs == <<EvA, EvB, EvC, EvD, EvE>>
Events == {ChainLogs[k] : k \in 1..Len(ChainLogs)}

NoUser == "none"
NoTx == [id |-> 0]

\* purchase and refund requests that may be in flight at once
Clients == {"c1", "c2"}
NoRequest == [op |-> "none"]
\* final prices of the orders users place, in credits
Prices == {2}

\* creditBalance values an administrator submits
AdminBalances == {0, 10}

\* values of NEXT_PUBLIC_DEPOSIT_ADDRESS: the treasury, unset, the placeholder
Treasury == "0xtreasury"
Unset == ""
Placeholder == "0x_your_treasury_address_here"
\* no conversion under way
NoConv == [stage |-> "none"]

(* ------------------------ amounts and conversions ---------------------- *)
\* 10^USDT_DECIMALS: on-chain units per token
USDT_DECIMALS == 6
Unit == 10^USDT_DECIMALS
\* fraction bits of the significand of a JavaScript number (IEEE 754 double)
SignificandBits == 52

\* Numbers beyond 2^31 are kept in limbs of 6 decimal digits: an on-chain
\* value <<a, b, c>> is a * 10^12 + b * 10^6 + c units, a whole number of
\* tokens <<a, b>> is a * 10^6 + b.
PairLeq(x, y) == x[1] < y[1] \/ (x[1] = y[1] /\ x[2] <= y[2])
PairSucc(x) == IF x[2] + 1 = Unit THEN <<x[1] + 1, 0>> ELSE <<x[1], x[2] + 1>>
RECURSIVE Pow2Pair(_)
Pow2Pair(n) ==
    IF n = 0 THEN <<0, 1>>
    ELSE LET h == Pow2Pair(n - 1) IN <<2 * h[1] + (2 * h[2]) \div Unit, (2 * h[2]) % Unit>>
\* floor(log2(whole)) of a whole number of tokens from 1 to 10^12 - 1
BinaryExponent(whole) ==
    CHOOSE n \in 0..39 : PairLeq(Pow2Pair(n), whole) /\ ~PairLeq(Pow2Pair(n + 1), whole)

\* an on-chain value as the getLogs result carries it (a bigint)
OnChainValues ==
    {<<0, 2, 0>>, <<0, 3, 0>>, <<0, 4, 0>>, <<0, 5, 0>>}
        \cup {<<w[1], w[2], m>> :
                 w \in {<<536, 870912>>, <<4294, 967296>>, <<8589, 934591>>,
                        <<8589, 934592>>, <<17179, 869184>>},
                 m \in {0, 1, 2, 3, 500000, 999999}}

\* viem formatUnits(value, 6): the decimal string of value / 10^6, i.e. the
\* digits before the last six and the last six digits as the fraction
formatUnits(value) == [whole |-> <<value[1], value[2]>>, frac |-> value[3]]

\* parseFloat(text): the double nearest to the decimal. The whole part is
\* below 2^53 and kept exactly; with e its binary exponent the fraction is
\* rounded to q / 2^(52 - e). The fraction is computed for amounts of 2^29
\* tokens and more (at most 23 fraction bits), within 32-bit arithmetic:
\* frac * 2^bits / 10^6 = frac * 2^(bits - 6) / 5^6.
parseFloat(text) ==
    LET bits == SignificandBits - BinaryExponent(text.whole)
    IN  IF text.frac = 0 THEN [whole |-> text.whole, bits |-> bits, q |-> 0]
        ELSE LET P == 2^(bits - USDT_DECIMALS)
                 D == Unit \div 2^USDT_DECIMALS
                 u == text.frac \div D
                 r == text.frac % D
                 floor == P * u + (P * r) \div D
                 q == IF 2 * ((P * r) % D) > D THEN floor + 1 ELSE floor
             IN  IF q = P * 2^USDT_DECIMALS
                 THEN [whole |-> PairSucc(text.whole), bits |-> bits, q |-> 0]
                 ELSE [whole |-> text.whole, bits |-> bits, q |-> q]

\* the number as the Decimal(.., 6) column stores it: the decimal of six
\* places nearest to whole + q / 2^bits
toDecimal(number) ==
    IF number.q = 0 THEN [whole |-> number.whole, frac |-> 0]
    ELSE LET P == 2^(number.bits - USDT_DECIMALS)
             D == Unit \div 2^USDT_DECIMALS
             a == number.q \div P
             b == number.q % P
             floor == D * a + (D * b) \div P
             frac == IF 2 * ((D * b) % P) >= P THEN floor + 1 ELSE floor
         IN  IF frac = Unit THEN [whole |-> PairSucc(number.whole), frac |-> 0]
             ELSE [whole |-> number.whole, frac |-> frac]

VARIABLES
    logs,       \* the Transfer logs to the treasury on the chain, in chain order
    heightIx,   \* index into Heights of the current chain height
    rows,       \* onchain_transactions table, in insertion order (id = index)
    registered, \* wallets that have a user row
    balance,    \* users.creditBalance, by wallet
    intents,    \* deposit_intents table, in creation order (id = index)
    ledger,     \* ledger_transactions table, in commit order
    pc,         \* position of each scanner invocation
    loc,        \* local variables of each scanner invocation
    passes,     \* invocations each scanner has started
    ret,        \* outcome of each scanner's latest creditUserDeposit call, by event
    commits,    \* crediting transactions committed, by event
    faults,     \* store operations failed by the store so far
    budget,     \* invocations each scanner is triggered for in this run
    depositAddress, \* config.depositAddress of the running deployment
    conv,       \* an on-chain value on its way from the log to the stored amount
    orders,     \* orders table, in creation order (id = index)
    requests    \* what each purchase or refund request in flight has read

vars == <<logs, heightIx, rows, registered, balance, intents, ledger, pc, loc, passes,
          ret, commits, faults, budget, depositAddress, conv, orders, requests>>

height == Heights[heightIx]

(* ------------------------------ helpers -------------------------------- *)
RECURSIVE LedgerSumTo(_, _)
\* sum of the signed amounts of the first k ledger entries of user w
LedgerSumTo(w, k) ==
    IF k = 0 THEN 0
    ELSE (IF ledger[k].userId = w THEN ledger[k].amount ELSE 0) + LedgerSumTo(w, k - 1)
LedgerSum(w) == LedgerSumTo(w, Len(ledger))

KeyOf(t) == <<t.txHash, t.logIndex>>
Keys == {KeyOf(e) : e \in Events}

Max(S) == CHOOSE x \in S : \A y \in S : y <= x

InitLoc == [currentBlock |-> 0, transfers |-> <<>>, i |-> 0, intent |-> 0,
            pendingTxs |-> <<>>, j |-> 0, confirmations |-> 0,
            tx |-> NoTx, user |-> NoUser, userBalance |-> 0,
            credited |-> 0,
            faulted |-> FALSE, failed |-> {}, fetchedCredited |-> {}, eligible |-> {}]

(* deposit:${txHash}:${logIndex} *)
idempotencyKeyRandom(tx, p) == <<"deposit", tx.txHash, tx.logIndex, p>>
idempotencyKey(tx, p) == <<"deposit", tx.txHash, tx.logIndex>>

\* unique index on ledger_transactions.idempotencyKey
LedgerKeyTaken(key) == \E k \in 1..Len(ledger) : ledger[k].idempotencyKey = key

\* unique index on onchain_transactions (txHash, logIndex)
TransferKeyFree(t) == FALSE
TransferKeyTaken(t) ==
    \E k \in 1..Len(rows) : rows[k].txHash = t.txHash /\ rows[k].logIndex = t.logIndex

\* the status processConfirmations writes for a row it read with status `old`
NewStatusOffByOne(old, confirmations) ==
    IF confirmations > confirmationThreshold THEN "CONFIRMED"
    ELSE IF confirmations > ConfirmingThreshold THEN "CONFIRMING"
    ELSE old
NewStatus(old, confirmations) ==
    IF confirmations >= confirmationThreshold THEN "CONFIRMED"
    ELSE IF confirmations >= ConfirmingThreshold THEN "CONFIRMING"
    ELSE old

(* ------------------------------- Init ---------------------------------- *)
\* A fresh deployment: no transfer recorded yet, user w1 signed in with
\* balance 0 and one PENDING deposit intent, nobody signed in with w2.
InitStore(chainLogs, triggers, firstHeight) ==
    /\ logs = chainLogs
    /\ budget = triggers
    /\ heightIx = firstHeight
    /\ rows = <<>>
    /\ registered = {"w1"}
    /\ balance = [w \in Wallets |-> 0]
    /\ intents = <<[userId |-> "w1", status |-> "PENDING"]>>
    /\ ledger = <<>>
    /\ pc = [p \in Scanners |-> "idle"]
    /\ loc = [p \in Scanners |-> InitLoc]
    /\ passes = [p \in Scanners |-> 0]
    /\ ret = [p \in Scanners |-> [e \in Keys |-> "none"]]
    /\ commits = [e \in Keys |-> 0]
    /\ faults = 0
    /\ depositAddress = Treasury
    /\ orders = <<>>
    /\ requests = [c \in Clients |-> NoRequest]

InitWith(chainLogs, triggers, firstHeight) ==
    /\ InitStore(chainLogs, triggers, firstHeight)
    /\ conv = NoConv

Init == InitWith(<<EvA, EvB>>, [p \in Scanners |-> IF p = "s3" THEN 0 ELSE MaxPasses], 1)

(* ------------------------- runDepositScanner --------------------------- *)
\* lines 88-93: findFirst by (txHash, logIndex); 0 when there is none
FindExisting(t) ==
    LET S == {k \in 1..Len(rows) : rows[k].txHash = t.txHash /\ rows[k].logIndex = t.logIndex}
    IN  IF S = {} THEN 0 ELSE CHOOSE k \in S : \A m \in S : k <= m

\* history, for the properties: the rows that are CONFIRMED, uncredited and
\* creditable (their user resolves) when an invocation starts, and that no
\* running invocation still has in the rest of its processConfirmations loop
Eligible ==
    {k \in 1..Len(rows) :
        /\ rows[k].status = "CONFIRMED"
        /\ ~rows[k].creditedAt
        /\ (rows[k].depositIntentId # 0 \/ rows[k].fromAddress \in registered)
        /\ \A q \in Scanners : \A n \in 1..Len(loc[q].pendingTxs) :
              n >= loc[q].j => loc[q].pendingTxs[n].id # k}

\* line 300: const currentBlock = await getCurrentBlock()
runDepositScanner(p) ==
    /\ pc[p] = "idle"
    /\ passes[p] < budget[p]
    /\ passes' = [passes EXCEPT ![p] = @ + 1]
    /\ loc' = [loc EXCEPT ![p] = [InitLoc EXCEPT !.currentBlock = height,
                                                 !.eligible = Eligible]]
    /\ pc' = [pc EXCEPT ![p] = "getLastScannedBlock"]
    /\ UNCHANGED <<logs, heightIx, rows, registered, balance, intents, ledger, ret, commits, faults, budget, depositAddress, conv, orders, requests>>

\* the events getLogs returns for [fromBlock, toBlock], in chain order
LogsInRange(fromBlock, toBlock) ==
    SelectSeq(logs, LAMBDA e : fromBlock <= e.blockNumber /\ e.blockNumber <= toBlock)

\* lines 304-313: the window; a zero-work pass returns at once, otherwise
\* the window is kept for scanForDeposits
ScanWindow(p, lastScanned) ==
    LET fromBlock == lastScanned + 1
        toBlock == loc[p].currentBlock - 1
    IN  IF fromBlock >= toBlock
        THEN /\ pc' = [pc EXCEPT ![p] = "idle"]
             /\ loc' = [loc EXCEPT ![p] = [InitLoc EXCEPT !.eligible = loc[p].eligible]]
        ELSE /\ pc' = [pc EXCEPT ![p] = "scanForDeposits"]
             /\ loc' = [loc EXCEPT ![p].transfers = <<fromBlock, toBlock>>]

\* lines 275-282: the highest block number among the recorded transfers
getLastScannedBlock(p) ==
    /\ pc[p] = "getLastScannedBlock"
    /\ IF rows # <<>>
       THEN ScanWindow(p, Max({rows[k].blockNumber : k \in 1..Len(rows)}))
       ELSE /\ pc' = [pc EXCEPT ![p] = "getLastScannedDefault"]
            /\ loc' = loc
    /\ UNCHANGED <<logs, heightIx, rows, registered, balance, intents, ledger, passes, ret, commits, faults, budget, depositAddress, conv, orders, requests>>

\* lines 285-286: no row yet: a second read of the height, minus 1000
getLastScannedDefault(p) ==
    /\ pc[p] = "getLastScannedDefault"
    /\ ScanWindow(p, height - DefaultLookback)
    /\ UNCHANGED <<logs, heightIx, rows, registered, balance, intents, ledger, passes, ret, commits, faults, budget, depositAddress, conv, orders, requests>>

\* lines 31-62: getLogs over the window; nothing is fetched when the deposit
\* address is unset or the placeholder
scanForDeposits(p) ==
    /\ pc[p] = "scanForDeposits"
    /\ LET fetched == IF depositAddress \in {Unset, Placeholder} THEN <<>>
                      ELSE LogsInRange(loc[p].transfers[1], loc[p].transfers[2])
       IN  loc' = [loc EXCEPT ![p].transfers = fetched,
                              ![p].i = 1,
                              ![p].fetchedCredited =
                                  {FindExisting(fetched[k]) : k \in 1..Len(fetched)}
                                      \cap {k \in 1..Len(rows) : rows[k].status = "CREDITED"}]
    /\ pc' = [pc EXCEPT ![p] = "findExisting"]
    /\ UNCHANGED <<logs, heightIx, rows, registered, balance, intents, ledger, passes, ret, commits, faults, budget, depositAddress, conv, orders, requests>>

(* ----------------------- processDetectedTransfers ---------------------- *)
\* lines 85-97: next transfer of the loop; skip it when a row has its key
processDetectedTransfers_findExisting(p) ==
    /\ pc[p] = "findExisting"
    /\ IF loc[p].i > Len(loc[p].transfers)
       THEN /\ pc' = [pc EXCEPT ![p] = "findMany"]
            /\ loc' = [loc EXCEPT ![p].transfers = <<>>, ![p].i = 0]
       ELSE IF FindExisting(loc[p].transfers[loc[p].i]) # 0
       THEN /\ pc' = pc
            /\ loc' = [loc EXCEPT ![p].i = @ + 1]
       ELSE /\ pc' = [pc EXCEPT ![p] = "findIntent"]
            /\ loc' = loc
    /\ UNCHANGED <<logs, heightIx, rows, registered, balance, intents, ledger, passes, ret, commits, faults, budget, depositAddress, conv, orders, requests>>

\* lines 100-109: the latest created PENDING intent of the sender's user
MatchIntentEarliest(fromAddress) ==
    LET S == {k \in 1..Len(intents) :
                intents[k].status = "PENDING" /\ intents[k].userId = fromAddress}
    IN  IF S = {} THEN 0 ELSE CHOOSE k \in S : \A m \in S : k <= m
MatchIntent(fromAddress) ==
    LET S == {k \in 1..Len(intents) :
                intents[k].status = "PENDING" /\ intents[k].userId = fromAddress}
    IN  IF S = {} THEN 0 ELSE Max(S)

processDetectedTransfers_findIntent(p) ==
    /\ pc[p] = "findIntent"
    /\ loc' = [loc EXCEPT ![p].intent = MatchIntent(loc[p].transfers[loc[p].i].fromAddress)]
    /\ pc' = [pc EXCEPT ![p] = "createRow"]
    /\ UNCHANGED <<logs, heightIx, rows, registered, balance, intents, ledger, passes, ret, commits, faults, budget, depositAddress, conv, orders, requests>>

\* lines 112-123 (a unique violation is caught at 135 and the loop goes on)
processDetectedTransfers_create(p) ==
    /\ pc[p] = "createRow"
    /\ LET t == loc[p].transfers[loc[p].i] IN
       IF TransferKeyTaken(t)
       THEN /\ rows' = rows
            /\ pc' = [pc EXCEPT ![p] = "findExisting"]
            /\ loc' = [loc EXCEPT ![p].i = @ + 1, ![p].intent = 0]
       ELSE /\ rows' = Append(rows, [txHash |-> t.txHash, logIndex |-> t.logIndex,
                                     fromAddress |-> t.fromAddress, amount |-> t.amount,
                                     blockNumber |-> t.blockNumber, status |-> "PENDING",
                                     confirmations |-> 0, depositIntentId |-> loc[p].intent,
                                     creditedAt |-> FALSE])
            /\ IF loc[p].intent # 0
               THEN /\ pc' = [pc EXCEPT ![p] = "updateIntent"]
                    /\ loc' = loc
               ELSE /\ pc' = [pc EXCEPT ![p] = "findExisting"]
                    /\ loc' = [loc EXCEPT ![p].i = @ + 1]
    /\ UNCHANGED <<logs, heightIx, registered, balance, intents, ledger, passes, ret, commits, faults, budget, depositAddress, conv, orders, requests>>

\* lines 112-123 and 135-137: the insertion fails (store error); the catch
\* block logs it and the loop goes on with the next transfer
processDetectedTransfers_createFails(p) ==
    /\ pc[p] = "createRow"
    /\ faults < MaxFaults
    /\ ~TransferKeyTaken(loc[p].transfers[loc[p].i])
    /\ faults' = faults + 1
    /\ pc' = [pc EXCEPT ![p] = "findExisting"]
    /\ loc' = [loc EXCEPT ![p].i = @ + 1, ![p].intent = 0, ![p].faulted = TRUE,
                          ![p].failed = @ \cup {KeyOf(loc[p].transfers[loc[p].i])}]
    /\ UNCHANGED <<logs, heightIx, rows, registered, balance, intents, ledger, passes, ret, commits, budget, depositAddress, conv, orders, requests>>

\* lines 126-131 and 135-137: the intent's update fails (store error) after
\* the row was inserted; the catch block logs it and the loop goes on
processDetectedTransfers_updateIntentFails(p) ==
    /\ pc[p] = "updateIntent"
    /\ faults < MaxFaults
    /\ faults' = faults + 1
    /\ pc' = [pc EXCEPT ![p] = "findExisting"]
    /\ loc' = [loc EXCEPT ![p].i = @ + 1, ![p].intent = 0, ![p].faulted = TRUE,
                          ![p].failed = @ \cup {KeyOf(loc[p].transfers[loc[p].i])}]
    /\ UNCHANGED <<logs, heightIx, rows, registered, balance, intents, ledger, passes, ret, commits, budget, depositAddress, conv, orders, requests>>

\* lines 126-131
processDetectedTransfers_updateIntent(p) ==
    /\ pc[p] = "updateIntent"
    /\ intents' = [intents EXCEPT ![loc[p].intent].status = "DETECTED"]
    /\ pc' = [pc EXCEPT ![p] = "findExisting"]
    /\ loc' = [loc EXCEPT ![p].i = @ + 1, ![p].intent = 0]
    /\ UNCHANGED <<logs, heightIx, rows, registered, balance, ledger, passes, ret, commits, faults, budget, depositAddress, conv, orders, requests>>

(* ------------------------- processConfirmations ------------------------ *)
RECURSIVE PendingFrom(_)
\* lines 151-155: findMany where status in (PENDING, CONFIRMING), from row k on
PendingFrom(k) ==
    IF k > Len(rows) THEN <<>>
    ELSE IF rows[k].status \in {"PENDING", "CONFIRMING"}
         THEN <<[id |-> k, status |-> rows[k].status, blockNumber |-> rows[k].blockNumber]>>
              \o PendingFrom(k + 1)
         ELSE PendingFrom(k + 1)

processConfirmations_findMany(p) ==
    /\ pc[p] = "findMany"
    /\ loc' = [loc EXCEPT ![p].pendingTxs = PendingFrom(1), ![p].j = 1]
    /\ pc' = [pc EXCEPT ![p] = "getConfirmations"]
    /\ UNCHANGED <<logs, heightIx, rows, registered, balance, intents, ledger, passes, ret, commits, faults, budget, depositAddress, conv, orders, requests>>

\* lines 74-77 and 157-159: next row of the loop; when the loop is over
\* runDepositScanner returns (lines 319-327)
getConfirmations(p) ==
    /\ pc[p] = "getConfirmations"
    /\ IF loc[p].j > Len(loc[p].pendingTxs)
       THEN /\ pc' = [pc EXCEPT ![p] = "idle"]
            /\ loc' = [loc EXCEPT ![p] = [InitLoc EXCEPT !.eligible = loc[p].eligible]]
       ELSE /\ pc' = [pc EXCEPT ![p] = "update"]
            /\ loc' = [loc EXCEPT ![p].confirmations =
                                     height - loc[p].pendingTxs[loc[p].j].blockNumber]
    /\ UNCHANGED <<logs, heightIx, rows, registered, balance, intents, ledger, passes, ret, commits, faults, budget, depositAddress, conv, orders, requests>>

\* an RPC error that is not caught ends the invocation
getConfirmationsRethrows(p) ==
    /\ pc[p] = "getConfirmations"
    /\ loc[p].j <= Len(loc[p].pendingTxs)
    /\ faults < MaxFaults
    /\ faults' = faults + 1
    /\ pc' = [pc EXCEPT ![p] = "idle"]
    /\ loc' = [loc EXCEPT ![p] = [InitLoc EXCEPT !.eligible = loc[p].eligible]]
    /\ UNCHANGED <<logs, heightIx, rows, registered, balance, intents, ledger, passes, ret, commits, budget, depositAddress, conv, orders, requests>>

\* lines 159 and 181-183: getCurrentBlock fails (RPC error); the catch block
\* logs it and the loop goes on with the next row
getConfirmationsFails(p) ==
    /\ pc[p] = "getConfirmations"
    /\ loc[p].j <= Len(loc[p].pendingTxs)
    /\ faults < MaxFaults
    /\ faults' = faults + 1
    /\ pc' = pc
    /\ loc' = [loc EXCEPT ![p].j = @ + 1, ![p].faulted = TRUE,
                          ![p].failed = @ \cup {KeyOf(rows[loc[p].pendingTxs[loc[p].j].id])}]
    /\ UNCHANGED <<logs, heightIx, rows, registered, balance, intents, ledger, passes, ret, commits, budget, depositAddress, conv, orders, requests>>

\* lines 169-172 and 181-183: the row's update fails (store error); nothing
\* is written, the catch block logs it and the loop goes on with the next row
processConfirmations_updateFails(p) ==
    /\ pc[p] = "update"
    /\ faults < MaxFaults
    /\ faults' = faults + 1
    /\ pc' = [pc EXCEPT ![p] = "getConfirmations"]
    /\ loc' = [loc EXCEPT ![p].j = @ + 1, ![p].confirmations = 0, ![p].faulted = TRUE,
                          ![p].failed = @ \cup {KeyOf(rows[loc[p].pendingTxs[loc[p].j].id])}]
    /\ UNCHANGED <<logs, heightIx, rows, registered, balance, intents, ledger, passes, ret, commits, budget, depositAddress, conv, orders, requests>>

\* an update that adds the count to the stored one
processConfirmations_updateAdds(p) ==
    /\ pc[p] = "update"
    /\ LET tx == loc[p].pendingTxs[loc[p].j]
           newStatus == NewStatus(tx.status, loc[p].confirmations)
       IN  /\ rows' = [rows EXCEPT ![tx.id].confirmations = @ + loc[p].confirmations,
                                   ![tx.id].status = newStatus]
           /\ IF newStatus = "CONFIRMED" /\ tx.status # "CREDITED"
              THEN /\ pc' = [pc EXCEPT ![p] = "findUnique"]
                   /\ loc' = loc
              ELSE /\ pc' = [pc EXCEPT ![p] = "getConfirmations"]
                   /\ loc' = [loc EXCEPT ![p].j = @ + 1, ![p].confirmations = 0]
    /\ UNCHANGED <<logs, heightIx, registered, balance, intents, ledger, passes, ret, commits, faults, budget, depositAddress, conv, orders, requests>>

\* lines 162-180: write the count and the recomputed status, then credit
processConfirmations_update(p) ==
    /\ pc[p] = "update"
    /\ LET tx == loc[p].pendingTxs[loc[p].j]
           newStatus == NewStatus(tx.status, loc[p].confirmations)
       IN  /\ rows' = [rows EXCEPT ![tx.id].confirmations = loc[p].confirmations,
                                   ![tx.id].status = newStatus]
           /\ IF newStatus = "CONFIRMED" /\ tx.status # "CREDITED"
              THEN /\ pc' = [pc EXCEPT ![p] = "findUnique"]
                   /\ loc' = loc
              ELSE /\ pc' = [pc EXCEPT ![p] = "getConfirmations"]
                   /\ loc' = [loc EXCEPT ![p].j = @ + 1, ![p].confirmations = 0]
    /\ UNCHANGED <<logs, heightIx, registered, balance, intents, ledger, passes, ret, commits, faults, budget, depositAddress, conv, orders, requests>>

(* --------------------------- creditUserDeposit ------------------------- *)
\* creditUserDeposit returns `outcome` to processConfirmations (true when the
\* credit was applied: lines 177-180 count it), whose loop goes on
ReturnUncounted(p, key, outcome) ==
    /\ ret' = [ret EXCEPT ![p][key] = outcome]
    /\ pc' = [pc EXCEPT ![p] = "getConfirmations"]
    /\ loc' = [loc EXCEPT ![p].j = @ + 1, ![p].confirmations = 0, ![p].tx = NoTx,
                          ![p].user = NoUser, ![p].userBalance = 0]
Return(p, key, outcome) ==
    /\ ret' = [ret EXCEPT ![p][key] = outcome]
    /\ pc' = [pc EXCEPT ![p] = "getConfirmations"]
    /\ loc' = [loc EXCEPT ![p].j = @ + 1, ![p].confirmations = 0, ![p].tx = NoTx,
                          ![p].user = NoUser, ![p].userBalance = 0,
                          ![p].credited = IF outcome = "applied" THEN @ + 1 ELSE @]

\* lines 193-205: the row with its intent's user
creditUserDeposit_findUnique(p) ==
    /\ pc[p] = "findUnique"
    /\ LET id == loc[p].pendingTxs[loc[p].j].id
           tx == rows[id]
       IN  IF tx.status = "CREDITED"
           THEN Return(p, KeyOf(tx), "already")
           ELSE /\ ret' = ret
                /\ IF tx.depositIntentId # 0
                   THEN /\ pc' = [pc EXCEPT ![p] = "transaction"]
                        /\ loc' = [loc EXCEPT ![p].tx = tx @@ [id |-> id],
                                              ![p].user = intents[tx.depositIntentId].userId,
                                              ![p].userBalance =
                                                  balance[intents[tx.depositIntentId].userId]]
                   ELSE /\ pc' = [pc EXCEPT ![p] = "findUser"]
                        /\ loc' = [loc EXCEPT ![p].tx = tx @@ [id |-> id]]
    /\ UNCHANGED <<logs, heightIx, rows, registered, balance, intents, ledger, passes, commits, faults, budget, depositAddress, conv, orders, requests>>

\* a lookup that sends the transfer of an unknown sender back to PENDING
creditUserDeposit_findUserResets(p) ==
    /\ pc[p] = "findUser"
    /\ LET w == loc[p].tx.fromAddress
       IN  IF w \in registered
           THEN /\ ret' = ret
                /\ rows' = rows
                /\ pc' = [pc EXCEPT ![p] = "transaction"]
                /\ loc' = [loc EXCEPT ![p].user = w, ![p].userBalance = balance[w]]
           ELSE /\ rows' = [rows EXCEPT ![loc[p].tx.id].status = "PENDING"]
                /\ Return(p, KeyOf(loc[p].tx), "nouser")
    /\ UNCHANGED <<logs, heightIx, registered, balance, intents, ledger, passes, commits, faults, budget, depositAddress, conv, orders, requests>>

\* lines 207-215: the user whose wallet is the sender
creditUserDeposit_findUser(p) ==
    /\ pc[p] = "findUser"
    /\ LET w == loc[p].tx.fromAddress
       IN  IF w \in registered
           THEN /\ ret' = ret
                /\ pc' = [pc EXCEPT ![p] = "transaction"]
                /\ loc' = [loc EXCEPT ![p].user = w, ![p].userBalance = balance[w]]
           ELSE Return(p, KeyOf(loc[p].tx), "nouser")
    /\ UNCHANGED <<logs, heightIx, rows, registered, balance, intents, ledger, passes, commits, faults, budget, depositAddress, conv, orders, requests>>

\* lines 260-268: the catch block logs and returns false, whether or not the
\* error is the unique violation of the idempotency key
CatchOutcomeTrue(uniqueViolation) == "applied"
CatchOutcome(uniqueViolation) == IF uniqueViolation THEN "duplicate" ELSE "error"

\* a batch whose balance update is for another user than its ledger entry
creditUserDeposit_transactionOtherUser(p) ==
    /\ pc[p] = "transaction"
    /\ LET tx == loc[p].tx
           amount == tx.amount
           key == idempotencyKey(tx, p)
           newBalance == loc[p].userBalance + amount
           other == CHOOSE w \in Wallets : w # loc[p].user
       IN  IF LedgerKeyTaken(key)
           THEN /\ Return(p, KeyOf(tx), CatchOutcome(TRUE))
                /\ UNCHANGED <<ledger, balance, rows, intents, commits>>
           ELSE /\ ledger' = Append(ledger, [userId |-> loc[p].user, type |-> "DEPOSIT",
                                             amount |-> amount, balanceAfter |-> newBalance,
                                             referenceId |-> tx.id, idempotencyKey |-> key])
                /\ balance' = [balance EXCEPT ![other] = newBalance]
                /\ rows' = [rows EXCEPT ![tx.id].status = "CREDITED",
                                        ![tx.id].creditedAt = TRUE]
                /\ intents' = IF tx.depositIntentId # 0
                              THEN [intents EXCEPT ![tx.depositIntentId].status = "CREDITED"]
                              ELSE intents
                /\ commits' = [commits EXCEPT ![KeyOf(tx)] = @ + 1]
                /\ Return(p, KeyOf(tx), "applied")
    /\ UNCHANGED <<logs, heightIx, registered, passes, faults, budget, depositAddress, conv, orders, requests>>

\* lines 217-259: the $transaction batch: ledger entry, balance, row, intent
creditUserDeposit_transaction(p) ==
    /\ pc[p] = "transaction"
    /\ LET tx == loc[p].tx
           amount == tx.amount
           key == idempotencyKey(tx, p)
           newBalance == loc[p].userBalance + amount
       IN  IF LedgerKeyTaken(key)
           THEN /\ Return(p, KeyOf(tx), CatchOutcome(TRUE))
                /\ UNCHANGED <<ledger, balance, rows, intents, commits>>
           ELSE /\ ledger' = Append(ledger, [userId |-> loc[p].user, type |-> "DEPOSIT",
                                             amount |-> amount, balanceAfter |-> newBalance,
                                             referenceId |-> tx.id, idempotencyKey |-> key])
                /\ balance' = [balance EXCEPT ![loc[p].user] = newBalance]
                /\ rows' = [rows EXCEPT ![tx.id].status = "CREDITED",
                                        ![tx.id].creditedAt = TRUE]
                /\ intents' = IF tx.depositIntentId # 0
                              THEN [intents EXCEPT ![tx.depositIntentId].status = "CREDITED"]
                              ELSE intents
                /\ commits' = [commits EXCEPT ![KeyOf(tx)] = @ + 1]
                /\ Return(p, KeyOf(tx), "applied")
    /\ UNCHANGED <<logs, heightIx, registered, passes, faults, budget, depositAddress, conv, orders, requests>>

\* a batch that is not atomic: the ledger entry stays when a later statement fails
creditUserDeposit_transactionFailsPartly(p) ==
    /\ pc[p] = "transaction"
    /\ faults < MaxFaults
    /\ ~LedgerKeyTaken(idempotencyKey(loc[p].tx, p))
    /\ faults' = faults + 1
    /\ ledger' = Append(ledger, [userId |-> loc[p].user, type |-> "DEPOSIT",
                                 amount |-> loc[p].tx.amount,
                                 balanceAfter |-> loc[p].userBalance + loc[p].tx.amount,
                                 referenceId |-> loc[p].tx.id,
                                 idempotencyKey |-> idempotencyKey(loc[p].tx, p)])
    /\ Return(p, KeyOf(loc[p].tx), CatchOutcome(FALSE))
    /\ UNCHANGED <<logs, heightIx, rows, registered, balance, intents, passes, commits, budget, depositAddress, conv, orders, requests>>

\* lines 224-256 and 260-268: a statement of the batch fails for a reason
\* other than the duplicate key (store error): the batch is rolled back
creditUserDeposit_transactionFails(p) ==
    /\ pc[p] = "transaction"
    /\ faults < MaxFaults
    /\ ~LedgerKeyTaken(idempotencyKey(loc[p].tx, p))
    /\ faults' = faults + 1
    /\ ret' = [ret EXCEPT ![p][KeyOf(loc[p].tx)] = CatchOutcome(FALSE)]
    /\ pc' = [pc EXCEPT ![p] = "getConfirmations"]
    /\ loc' = [loc EXCEPT ![p].j = @ + 1, ![p].confirmations = 0, ![p].tx = NoTx,
                          ![p].user = NoUser, ![p].userBalance = 0,
                          ![p].failed = @ \cup {KeyOf(loc[p].tx)}]
    /\ UNCHANGED <<logs, heightIx, rows, registered, balance, intents, ledger, passes, commits, budget, depositAddress, conv, orders, requests>>

(* ----------------------------- environment ----------------------------- *)
\* the chain grows
ChainAdvance ==
    /\ heightIx < Len(Heights)
    /\ heightIx' = heightIx + 1
    /\ UNCHANGED <<logs, rows, registered, balance, intents, ledger, pc, loc, passes, ret, commits, faults, budget, depositAddress, conv, orders, requests>>

\* the node reports a lower height than before (a reorganisation, or a
\* lagging node behind the RPC endpoint)
ChainReorg ==
    /\ heightIx > 1
    /\ heightIx' = heightIx - 1
    /\ UNCHANGED <<logs, rows, registered, balance, intents, ledger, pc, loc, passes, ret, commits, faults, budget, depositAddress, conv, orders, requests>>

\* PUT /api/admin/users/[id] with a creditBalance (lines 16-26): user.update
\* sets the balance to the submitted value; the only other write is the
\* admin audit log
adminUpdateUser(w, creditBalance) ==
    /\ w \in registered
    /\ balance' = [balance EXCEPT ![w] = creditBalance]
    /\ UNCHANGED <<logs, heightIx, rows, registered, intents, ledger, pc, loc, passes, ret, commits, faults, budget, depositAddress, conv, orders, requests>>

\* POST /api/admin/users (lines 52-66): a user for a wallet that has none,
\* created with the submitted balance (0 when none is submitted)
adminCreateUser(w, creditBalance) ==
    /\ w \notin registered
    /\ registered' = registered \cup {w}
    /\ balance' = [balance EXCEPT ![w] = creditBalance]
    /\ UNCHANGED <<logs, heightIx, rows, intents, ledger, pc, loc, passes, ret, commits, faults, budget, depositAddress, conv, orders, requests>>

\* POST /api/deposits/intent (lines 22-46) of a signed-in user: refused
\* beyond the hourly limit, otherwise a new intent of that user
createDepositIntent(w) ==
    /\ w \in registered
    /\ Len(intents) < MaxIntents
    /\ Cardinality({k \in 1..Len(intents) : intents[k].userId = w}) < depositIntentsLimit
    /\ intents' = Append(intents, [userId |-> w, status |-> IntentDefaultStatus])
    /\ UNCHANGED <<logs, heightIx, rows, registered, balance, ledger, pc, loc, passes, ret, commits, faults, budget, depositAddress, conv, orders, requests>>

\* POST /api/orders, lines 73-104: the buyer's user row is read; the request
\* ends here when the balance is below the final price
createOrder_findUser(c, w, finalPrice) ==
    /\ requests[c] = NoRequest
    /\ w \in registered
    /\ Len(orders) < MaxOrders
    /\ balance[w] >= finalPrice
    /\ requests' = [requests EXCEPT ![c] = [op |-> "purchase", userId |-> w,
                                            creditBalance |-> balance[w],
                                            finalPrice |-> finalPrice]]
    /\ UNCHANGED <<logs, heightIx, rows, registered, balance, intents, ledger, pc, loc, passes, ret, commits, faults, budget, depositAddress, conv, orders>>

\* an order whose deduction is relative to the stored balance while the
\* ledger entry keeps the balance computed from the earlier read
createOrder_transactionDecrements(c) ==
    /\ requests[c].op = "purchase"
    /\ LET r == requests[c]
           newBalance == r.creditBalance - r.finalPrice
       IN  /\ orders' = Append(orders, [userId |-> r.userId, totalCredits |-> r.finalPrice,
                                        status |-> "PENDING"])
           /\ balance' = [balance EXCEPT ![r.userId] = @ - r.finalPrice]
           /\ ledger' = Append(ledger, [userId |-> r.userId, type |-> "PURCHASE",
                                        amount |-> 0 - r.finalPrice,
                                        balanceAfter |-> newBalance, referenceId |-> 0,
                                        idempotencyKey |-> <<"purchase", "", Len(ledger) + 1>>])
    /\ requests' = [requests EXCEPT ![c] = NoRequest]
    /\ UNCHANGED <<logs, heightIx, rows, registered, intents, pc, loc, passes, ret, commits, faults, budget, depositAddress, conv>>

\* POST /api/orders, lines 107-146: the $transaction batch: order, balance,
\* ledger entry (its key is a fresh UUID)
createOrder_transaction(c) ==
    /\ requests[c].op = "purchase"
    /\ LET r == requests[c]
           newBalance == r.creditBalance - r.finalPrice
       IN  /\ orders' = Append(orders, [userId |-> r.userId, totalCredits |-> r.finalPrice,
                                        status |-> "PENDING"])
           /\ balance' = [balance EXCEPT ![r.userId] = newBalance]
           /\ ledger' = Append(ledger, [userId |-> r.userId, type |-> "PURCHASE",
                                        amount |-> 0 - r.finalPrice,
                                        balanceAfter |-> newBalance, referenceId |-> 0,
                                        idempotencyKey |-> <<"purchase", "", Len(ledger) + 1>>])
    /\ requests' = [requests EXCEPT ![c] = NoRequest]
    /\ UNCHANGED <<logs, heightIx, rows, registered, intents, pc, loc, passes, ret, commits, faults, budget, depositAddress, conv>>

\* POST /api/admin/orders/[id]/refund, lines 70-84: the order is read with
\* its user; an order that is REFUNDED is refused; the amount is the order's
\* total when the request gives none
refundOrder_findUnique(c, id) ==
    /\ requests[c] = NoRequest
    /\ id \in 1..Len(orders)
    /\ orders[id].status # "REFUNDED"
    /\ requests' = [requests EXCEPT ![c] = [op |-> "refund", id |-> id,
                                            userId |-> orders[id].userId,
                                            creditBalance |-> balance[orders[id].userId],
                                            amount |-> orders[id].totalCredits]]
    /\ UNCHANGED <<logs, heightIx, rows, registered, balance, intents, ledger, pc, loc, passes, ret, commits, faults, budget, depositAddress, conv, orders>>

\* POST /api/admin/orders/[id]/refund, lines 87-136: the interactive
\* transaction: refund record, balance, ledger entry (its key is the new
\* refund's id), order REFUNDED
refundOrder_transaction(c) ==
    /\ requests[c].op = "refund"
    /\ LET r == requests[c]
           newBalance == r.creditBalance + r.amount
       IN  /\ balance' = [balance EXCEPT ![r.userId] = newBalance]
           /\ ledger' = Append(ledger, [userId |-> r.userId, type |-> "REFUND",
                                        amount |-> r.amount,
                                        balanceAfter |-> newBalance, referenceId |-> 0,
                                        idempotencyKey |-> <<"refund", "", Len(ledger) + 1>>])
           /\ orders' = [orders EXCEPT ![r.id].status = "REFUNDED"]
    /\ requests' = [requests EXCEPT ![c] = NoRequest]
    /\ UNCHANGED <<logs, heightIx, rows, registered, intents, pc, loc, passes, ret, commits, faults, budget, depositAddress, conv>>

\* depositScanner.ts line 55: the value of a fetched log becomes the amount
\* string of the DetectedTransfer
scanForDeposits_formatUnits ==
    /\ conv.stage = "log"
    /\ conv' = [stage |-> "decoded", value |-> conv.value, amount |-> formatUnits(conv.value)]
    /\ UNCHANGED <<logs, heightIx, rows, registered, balance, intents, ledger, pc, loc, passes, ret, commits, faults, budget, depositAddress, orders, requests>>

\* line 117: amount: parseFloat(transfer.amount)
processDetectedTransfers_parseFloat ==
    /\ conv.stage = "decoded"
    /\ conv' = [stage |-> "parsed", value |-> conv.value, amount |-> parseFloat(conv.amount)]
    /\ UNCHANGED <<logs, heightIx, rows, registered, balance, intents, ledger, pc, loc, passes, ret, commits, faults, budget, depositAddress, orders, requests>>

\* lines 112-123: the number is written to the row's decimal amount, which
\* creditUserDeposit adds to the balance and copies to the ledger entry
processDetectedTransfers_storeAmount ==
    /\ conv.stage = "parsed"
    /\ conv' = [stage |-> "stored", value |-> conv.value, amount |-> toDecimal(conv.amount)]
    /\ UNCHANGED <<logs, heightIx, rows, registered, balance, intents, ledger, pc, loc, passes, ret, commits, faults, budget, depositAddress, orders, requests>>

\* the application is redeployed with another NEXT_PUBLIC_DEPOSIT_ADDRESS
\* (config.ts line 13), while no invocation is running
Redeploy(a) ==
    /\ \A p \in Scanners : pc[p] = "idle"
    /\ a # depositAddress
    /\ depositAddress' = a
    /\ UNCHANGED <<logs, heightIx, rows, registered, balance, intents, ledger, pc, loc, passes, ret, commits, faults, budget, conv, orders, requests>>

\* auth.ts getOrCreateUser: first sign-in of a wallet creates its user
getOrCreateUser(w) ==
    /\ w \notin registered
    /\ registered' = registered \cup {w}
    /\ UNCHANGED <<logs, heightIx, rows, balance, intents, ledger, pc, loc, passes, ret, commits, faults, budget, depositAddress, conv, orders, requests>>

ScannerStep(p) ==
    \/ runDepositScanner(p)
    \/ getLastScannedBlock(p)
    \/ getLastScannedDefault(p)
    \/ scanForDeposits(p)
    \/ processDetectedTransfers_findExisting(p)
    \/ processDetectedTransfers_findIntent(p)
    \/ processDetectedTransfers_create(p)
    \/ processDetectedTransfers_updateIntent(p)
    \/ processConfirmations_findMany(p)
    \/ getConfirmations(p)
    \/ processConfirmations_update(p)
    \/ creditUserDeposit_findUnique(p)
    \/ creditUserDeposit_findUser(p)
    \/ creditUserDeposit_transaction(p)

Next ==
    \/ \E p \in Scanners : ScannerStep(p)
    \/ ChainAdvance

Spec == Init /\ [][Next]_vars

\* the store may fail a crediting transaction
NextFault ==
    \/ Next
    \/ \E p \in Scanners : creditUserDeposit_transactionFails(p)

SpecFault == Init /\ [][NextFault]_vars

\* a transfer from a wallet whose owner signs in later
InitDeferred == InitWith(<<EvA, EvC>>, [p \in Scanners |-> IF p = "s3" THEN 0 ELSE MaxPasses], 1)

NextDeferred ==
    \/ Next
    \/ \E w \in Wallets : getOrCreateUser(w)

SpecDeferred == InitDeferred /\ [][NextDeferred]_vars

\* three overlapping invocations of one pass each
Init3 == InitWith(<<EvB, EvC>>, [p \in Scanners |-> 1], 2)

Spec3 == Init3 /\ [][Next]_vars

\* one invocation at a time
InitSolo == InitWith(<<EvA, EvB, EvC>>, [p \in Scanners |-> IF p = "s1" THEN MaxPasses ELSE 0], 1)

SpecSolo == InitSolo /\ [][Next]_vars

\* the store may fail the insertion of a row
NextInsertFault ==
    \/ Next
    \/ \E p \in Scanners : processDetectedTransfers_createFails(p)

SpecInsertFault == InitSolo /\ [][NextInsertFault]_vars

\* the deployment's deposit address changes between invocations
NextConfig ==
    \/ Next
    \/ \E a \in {Treasury, Unset, Placeholder} : Redeploy(a)

SpecConfig == InitSolo /\ [][NextConfig]_vars

\* a transfer two blocks below the first height: once it is recorded, the
\* window of an invocation at that height is the single block above it
InitWindow == InitWith(<<EvA, EvB, EvD>>, [p \in Scanners |-> IF p = "s1" THEN MaxPasses ELSE 0], 1)

SpecWindow == InitWindow /\ [][Next]_vars

\* administrators edit and create users while the scanner runs
NextAdmin ==
    \/ Next
    \/ \E w \in Wallets : \E b \in AdminBalances : adminUpdateUser(w, b)
    \/ \E w \in Wallets : \E b \in AdminBalances : adminCreateUser(w, b)

SpecAdmin == InitSolo /\ [][NextAdmin]_vars

\* users sign in and create deposit intents while the scanner runs
NextIntent ==
    \/ Next
    \/ \E w \in Wallets : getOrCreateUser(w)
    \/ \E w \in Wallets : createDepositIntent(w)

InitIntent == InitWith(<<EvB, EvC>>, [p \in Scanners |-> IF p = "s3" THEN 0 ELSE 1], 2)

SpecIntent == InitIntent /\ [][NextIntent]_vars

\* the way of one on-chain value from the log to the stored amount
InitAmount ==
    /\ InitStore(<<>>, [p \in Scanners |-> 0], 1)
    /\ conv \in {[stage |-> "log", value |-> v] : v \in OnChainValues}

NextAmount ==
    \/ scanForDeposits_formatUnits
    \/ processDetectedTransfers_parseFloat
    \/ processDetectedTransfers_storeAmount

SpecAmount == InitAmount /\ [][NextAmount]_vars

\* the reported height may go down as well as up
InitReorg == InitWith(<<EvA, EvB>>, [p \in Scanners |-> IF p = "s1" THEN MaxPasses ELSE IF p = "s2" THEN 1 ELSE 0], 1)

NextReorg ==
    \/ Next
    \/ ChainReorg

SpecReorg == InitReorg /\ [][NextReorg]_vars

\* users place orders and administrators refund them while an invocation
\* records and credits the transfers, at a height where both are past the
\* threshold
InitShop == InitWith(<<EvA, EvB>>, [p \in Scanners |-> IF p = "s1" THEN 1 ELSE 0], 3)

NextShop ==
    \/ \E p \in Scanners : ScannerStep(p)
    \/ \E c \in Clients : \E w \in Wallets : \E finalPrice \in Prices :
          createOrder_findUser(c, w, finalPrice)
    \/ \E c \in Clients : createOrder_transaction(c)
    \/ \E c \in Clients : \E id \in 1..MaxOrders : refundOrder_findUnique(c, id)
    \/ \E c \in Clients : refundOrder_transaction(c)

SpecShop == InitShop /\ [][NextShop]_vars

\* overlapping invocations, a sender who signs in later, and a store that
\* may fail a crediting transaction: every way creditUserDeposit returns false
NextNotApplied ==
    \/ NextDeferred
    \/ \E p \in Scanners : creditUserDeposit_transactionFails(p)

SpecNotApplied == InitDeferred /\ [][NextNotApplied]_vars

\* one invocation at a time; the node or the store may fail one operation
\* on a transfer: its insertion, its intent's update, the read of the height
\* for its count, its update, its crediting transaction
InitIsolation == InitWith(<<EvA, EvB, EvE>>, [p \in Scanners |-> IF p = "s1" THEN MaxPasses ELSE 0], 1)

NextIsolation ==
    \/ Next
    \/ \E p \in Scanners : processDetectedTransfers_createFails(p)
    \/ \E p \in Scanners : processDetectedTransfers_updateIntentFails(p)
    \/ \E p \in Scanners : getConfirmationsFails(p)
    \/ \E p \in Scanners : processConfirmations_updateFails(p)
    \/ \E p \in Scanners : creditUserDeposit_transactionFails(p)

SpecIsolation == InitIsolation /\ [][NextIsolation]_vars

(* ======================= properties of the engine ====================== *)
DepositKey(t) == <<"deposit", t.txHash, t.logIndex>>
\* the ledger entries that credit transfer t
EntriesOf(t) ==
    {k \in 1..Len(ledger) :
        /\ ledger[k].type = "DEPOSIT"
        /\ ledger[k].referenceId # 0
        /\ ledger[k].referenceId = FindExisting(t)}
Finished == {"applied", "already", "duplicate"}

BalanceInvariant == \A w \in Wallets : balance[w] = LedgerSum(w)

\* C3 Scenario C: of the creditUserDeposit calls that ran for one transfer
\* with a resolvable user, exactly one returned true (applied); every other
\* one returned false (found it CREDITED, or hit the duplicate key).
ScenarioC ==
    \A k \in Keys :
        LET done == {p \in Scanners : ret[p][k] \in Finished}
        IN  done # {} =>
              /\ commits[k] = 1
              /\ Cardinality({p \in done : ret[p][k] = "applied"}) <= 1
              /\ (Cardinality(done) > 1 => \E p \in done : ret[p][k] # "applied")

\* both calls had read the row as CONFIRMED before either committed
ScenarioCWitness ==
    \E e \in Events :
        /\ ret["s2"][KeyOf(e)] = "applied"
        /\ ret["s1"][KeyOf(e)] = "duplicate"
        /\ FindExisting(e) # 0
        /\ rows[FindExisting(e)].status = "CREDITED"

\* C4 CREDITED is terminal: no step takes a row out of status CREDITED.
CreditedIsTerminal ==
    [][\A k \in 1..Len(rows) : rows[k].status = "CREDITED" => rows'[k].status = "CREDITED"]_vars

\* C5 No transfer skips CONFIRMED: a row that becomes CREDITED was CONFIRMED
\* in the state before the crediting transaction committed.
NeverSkipsConfirmed ==
    [][\A k \in 1..Len(rows) :
          (rows[k].status # "CREDITED" /\ rows'[k].status = "CREDITED")
              => rows[k].status = "CONFIRMED"]_vars

\* C6 Idempotent observation: there is at most one row for each
\* (txHash, logIndex), whatever passes ran over the same blocks.
NoDuplicateRows ==
    \A k, m \in 1..Len(rows) : KeyOf(rows[k]) = KeyOf(rows[m]) => k = m

\* two invocations fetched the same two events and both went through them
NoDuplicateRowsWitness ==
    /\ Len(rows) = 2
    /\ \A p \in {"s1", "s2"} :
          /\ pc[p] = "findExisting"
          /\ Len(loc[p].transfers) = 2
          /\ loc[p].i = 3

\* the steps of invocation p
StepOf(p) == pc'[p] # pc[p] \/ loc'[p] # loc[p]

\* C7 Scenario B: an invocation whose fetched transfers include an event
\* that was recorded and CREDITED when it was fetched adds no ledger entry
\* for it, changes no balance on its account, and leaves its row as it is.
ScenarioB ==
    [][\A p \in Scanners : \A k \in loc[p].fetchedCredited :
          StepOf(p) =>
              /\ rows'[k] = rows[k]
              /\ \A n \in 1..Len(ledger') : n > Len(ledger) => ledger'[n].referenceId # k]_vars

\* C8 Scenario E (deferred credit): an invocation that starts when a
\* transfer is CONFIRMED and uncredited, after a credit attempt found no user
\* for it and now that the user exists, has credited it when it returns (no
\* other invocation being under way).
DeferredCreditHappens ==
    \A p \in Scanners :
        (passes[p] > 0 /\ \A q \in Scanners : pc[q] = "idle") =>
            \A k \in loc[p].eligible :
                (\E q \in Scanners : ret[q][KeyOf(rows[k])] = "nouser")
                    => rows[k].status = "CREDITED"

\* C9 Retry after failure: an invocation that starts when a transfer is
\* CONFIRMED and uncredited after its crediting transaction failed, and
\* during which the store fails no more, has credited it when it returns.
FailedCreditRetried ==
    \A p \in Scanners :
        (passes[p] > 0 /\ faults = MaxFaults /\ \A q \in Scanners : pc[q] = "idle") =>
            \A k \in loc[p].eligible :
                (\E q \in Scanners : ret[q][KeyOf(rows[k])] = "error")
                    => rows[k].status = "CREDITED"

\* C10 Atomic crediting: in every step, a ledger entry for a row is added
\* exactly when the row becomes CREDITED and gets its creditedAt, and then
\* the user's balance is the entry's balanceAfter and the linked intent is
\* CREDITED; in a step that adds no entry no balance changes and no intent
\* becomes CREDITED; and a crediting transaction that fails changes nothing.
AtomicCrediting ==
    [][/\ \A k \in 1..Len(rows) :
            LET added == \E n \in 1..Len(ledger') : n > Len(ledger) /\ ledger'[n].referenceId = k
            IN  /\ added <=> (rows[k].status # "CREDITED" /\ rows'[k].status = "CREDITED")
                /\ added <=> (~rows[k].creditedAt /\ rows'[k].creditedAt)
                /\ added => /\ Len(ledger') = Len(ledger) + 1
                            /\ balance'[ledger'[Len(ledger')].userId] = ledger'[Len(ledger')].balanceAfter
                            /\ rows[k].depositIntentId # 0
                                 => intents'[rows[k].depositIntentId].status = "CREDITED"
       /\ Len(ledger') = Len(ledger) =>
            /\ balance' = balance
            /\ \A n \in 1..Len(intents) :
                  intents'[n].status = "CREDITED" => intents[n].status = "CREDITED"
       /\ \A p \in Scanners :
            (pc[p] = "transaction" /\ pc'[p] # "transaction"
                /\ ret'[p][KeyOf(loc[p].tx)] \in {"duplicate", "error"})
              => UNCHANGED <<ledger, balance, rows, intents>>]_vars

\* a crediting transaction of a transfer linked to an intent has failed: no
\* entry, balance untouched, row CONFIRMED without creditedAt, intent DETECTED
AtomicCreditingWitness ==
    \E p \in Scanners : \E k \in 1..Len(rows) :
        /\ ret[p][KeyOf(rows[k])] = "error"
        /\ rows[k].depositIntentId # 0
        /\ intents[rows[k].depositIntentId].status = "DETECTED"
        /\ rows[k].status = "CONFIRMED" /\ ~rows[k].creditedAt
        /\ ledger = <<>>
        /\ balance = [w \in Wallets |-> 0]

\* C11 Monotonic confirmation: the chain height the node reports never
\* decreases, and in no step of any pass, sequential or overlapping, does
\* the stored confirmation count of a recorded transfer decrease.
MonotonicConfirmations ==
    [][\A k \in 1..Len(rows) : rows'[k].confirmations >= rows[k].confirmations]_vars

\* the row processConfirmations is handling in invocation p
HandledRow(p) == loc[p].pendingTxs[loc[p].j]

\* C12 Confirmation state machine (as amended): processConfirmations handles
\* only rows it read as PENDING or CONFIRMING; the count it computes is the
\* height it reads minus the row's block number; it stores that count c and
\* the status CONFIRMED if c >= 12, CONFIRMING if 6 <= c < 12, and the status
\* it read (PENDING or CONFIRMING) if c < 6.
ConfirmationStateMachine ==
    [][\A p \in Scanners :
          /\ (pc[p] = "getConfirmations" /\ pc'[p] = "update") =>
                /\ HandledRow(p).status \in {"PENDING", "CONFIRMING"}
                /\ loc'[p].confirmations = Heights[heightIx] - rows[HandledRow(p).id].blockNumber
          /\ (pc[p] = "update" /\ pc'[p] # "update") =>
                LET c == loc[p].confirmations
                    k == HandledRow(p).id
                IN  /\ rows'[k].confirmations = c
                    /\ rows'[k].status = IF c >= 12 THEN "CONFIRMED"
                                         ELSE IF c >= 6 THEN "CONFIRMING"
                                         ELSE HandledRow(p).status]_vars

\* a CONFIRMING row was handled at a height that gives it fewer than 6
\* confirmations, and is still CONFIRMING
ConfirmationStateMachineWitness ==
    \E k \in 1..Len(rows) : rows[k].status = "CONFIRMING" /\ rows[k].confirmations < 6

\* C12 as stated: the status stored for c < 6 is PENDING
ConfirmationStateMachineAsStated ==
    [][\A p \in Scanners :
          (pc[p] = "update" /\ pc'[p] # "update") =>
                LET c == loc[p].confirmations
                    k == HandledRow(p).id
                IN  /\ rows'[k].confirmations = c
                    /\ rows'[k].status = IF c >= 12 THEN "CONFIRMED"
                                         ELSE IF c >= 6 THEN "CONFIRMING"
                                         ELSE "PENDING"]_vars


RECURSIVE CreditedSumTo(_, _)
\* sum of the amounts of the CREDITED rows among the first k whose sender is w
CreditedSumTo(w, k) ==
    IF k = 0 THEN 0
    ELSE (IF rows[k].status = "CREDITED" /\ rows[k].fromAddress = w THEN rows[k].amount ELSE 0)
            + CreditedSumTo(w, k - 1)

\* C13 Scenario A: with one invocation at a time and a fresh store, when the
\* first invocation returns, the transfer of block 985 (15 or more
\* confirmations at any height from 1000 on), sent by the registered user w1,
\* is recorded and CREDITED, exactly one DEPOSIT entry exists for it, with key
\* deposit:txHash:logIndex, the transfer's amount 5 and balanceAfter = prior
\* balance 0 + 5, the balance of w1 is the prior balance plus the amounts
\* credited in the pass, and the creditedDeposits the pass reports is the
\* number of transfers it credited; and every crediting commit sets the
\* balance to the balance before it plus the transfer's amount and writes
\* that balance as balanceAfter.
ScenarioA ==
    [][/\ \A p \in Scanners :
            (pc[p] = "getConfirmations" /\ pc'[p] = "idle" /\ passes[p] = 1) =>
                LET k == FindExisting(EvA)
                IN  /\ k # 0
                    /\ rows[k].status = "CREDITED"
                    /\ \E n \in 1..Len(ledger) :
                          /\ EntriesOf(EvA) = {n}
                          /\ ledger[n].idempotencyKey = DepositKey(EvA)
                          /\ ledger[n].userId = "w1"
                          /\ ledger[n].amount = 5
                          /\ ledger[n].balanceAfter = 5
                    /\ balance["w1"] = CreditedSumTo("w1", Len(rows))
                    /\ loc[p].credited = Cardinality({m \in 1..Len(rows) : rows[m].status = "CREDITED"})
                    /\ loc[p].credited >= 1
       /\ Len(ledger') > Len(ledger) =>
            LET e == ledger'[Len(ledger')]
            IN  /\ balance'[e.userId] = balance[e.userId] + rows[e.referenceId].amount
                /\ e.balanceAfter = balance'[e.userId]
                /\ e.amount = rows[e.referenceId].amount]_vars

\* the first invocation has returned having credited the transfer of block
\* 985 and nothing else: one ledger entry, balance 5
ScenarioAWitness ==
    /\ passes["s1"] = 1 /\ pc["s1"] = "idle"
    /\ FindExisting(EvA) # 0
    /\ rows[FindExisting(EvA)].status = "CREDITED"
    /\ Len(ledger) = 1
    /\ balance["w1"] = 5
    /\ ret["s1"][KeyOf(EvA)] = "applied"

\* C14 No lost transfer record: when an invocation during which no insertion
\* failed returns, every transfer to the treasury in a block up to its
\* toBlock (the height it read minus 1) is recorded, whatever insertions
\* failed in earlier invocations.
NoLostTransfer ==
    [][\A p \in Scanners :
          (pc[p] # "idle" /\ pc'[p] = "idle" /\ ~loc[p].faulted) =>
              \A n \in 1..Len(logs) :
                  logs[n].blockNumber <= loc[p].currentBlock - 1
                      => \E k \in 1..Len(rows') :
                            rows'[k].txHash = logs[n].txHash /\ rows'[k].logIndex = logs[n].logIndex]_vars

\* C15 Fatal configuration is a no-op: while the deposit address is unset or
\* the placeholder, no step of an invocation changes a row, the ledger, a
\* balance or an intent.
UnconfiguredIsNoOp ==
    [][(depositAddress \in {Unset, Placeholder} /\ depositAddress' = depositAddress)
          => UNCHANGED <<rows, ledger, balance, intents>>]_vars

\* C16 Scan window: the step of an invocation that settles its window, with
\* fromBlock = lastScannedBlock + 1 and toBlock = the height it read - 1,
\* returns at once (zero-work pass) exactly when fromBlock > toBlock, and
\* otherwise goes on to fetch fromBlock..toBlock, a single block included.
ScanWindowAsStated ==
    [][\A p \in Scanners :
          (pc[p] \in {"getLastScannedBlock", "getLastScannedDefault"}
              /\ pc'[p] \in {"idle", "scanForDeposits"}) =>
                LET lastScanned == IF pc[p] = "getLastScannedBlock"
                                   THEN Max({rows[k].blockNumber : k \in 1..Len(rows)})
                                   ELSE Heights[heightIx] - 1000
                    fromBlock == lastScanned + 1
                    toBlock == loc[p].currentBlock - 1
                IN  /\ pc'[p] = "idle" <=> fromBlock > toBlock
                    /\ pc'[p] = "scanForDeposits" => loc'[p].transfers = <<fromBlock, toBlock>>]_vars

\* C17 Every balance change has its ledger entry: a step that changes a
\* user's creditBalance (or creates the user with a non-zero one) appends, in
\* the same step, exactly one ledger entry of that user whose signed amount
\* is the change of the balance.
BalanceChangeHasEntry ==
    [][\A w \in Wallets :
          balance'[w] # balance[w] =>
              /\ Len(ledger') = Len(ledger) + 1
              /\ ledger'[Len(ledger')].userId = w
              /\ ledger'[Len(ledger')].amount = balance'[w] - balance[w]]_vars

\* the PENDING intents of the user whose wallet is `fromAddress`
PendingIntentsOf(fromAddress) ==
    {m \in 1..Len(intents) : intents[m].status = "PENDING" /\ intents[m].userId = fromAddress}

\* C18 Transfer Matcher: for a transfer about to be inserted, the intent
\* processDetectedTransfers selects is a PENDING intent of the sender's user
\* and the latest created of those, or none when the sender's user has no
\* PENDING intent (so never a DETECTED or CREDITED one, nor another user's);
\* the row it inserts carries the selected intent (none: 0) as its
\* depositIntentId, and after the insertion it sets that intent to DETECTED.
TransferMatcher ==
    [][\A p \in Scanners :
          /\ (pc[p] = "findIntent" /\ pc'[p] = "createRow") =>
                LET S == PendingIntentsOf(loc[p].transfers[loc[p].i].fromAddress)
                    k == loc'[p].intent
                IN  /\ S = {} => k = 0
                    /\ S # {} => (k \in S /\ \A m \in S : m <= k)
          /\ (pc[p] = "createRow" /\ pc'[p] # "createRow" /\ Len(rows') = Len(rows) + 1) =>
                /\ rows'[Len(rows')].depositIntentId = loc[p].intent
                /\ loc[p].intent # 0 => (pc'[p] = "updateIntent" /\ loc'[p].intent = loc[p].intent)
                /\ intents' = intents
          /\ (pc[p] = "updateIntent" /\ pc'[p] # "updateIntent") =>
                /\ intents'[loc[p].intent].status = "DETECTED"
                /\ \A m \in 1..Len(intents) : m # loc[p].intent => intents'[m] = intents[m]]_vars

\* a transfer is linked to the later of two intents of its sender: the later
\* one is DETECTED, the earlier one still PENDING
TransferMatcherWitness ==
    \E r \in 1..Len(rows) : \E m \in 1..Len(intents) :
        /\ rows[r].depositIntentId > m
        /\ intents[rows[r].depositIntentId].userId = rows[r].fromAddress
        /\ intents[m].userId = rows[r].fromAddress
        /\ intents[m].status = "PENDING"
        /\ intents[rows[r].depositIntentId].status = "DETECTED"

\* C19 Exact amounts: the amount stored for a transfer is the on-chain value
\* divided by 10^6 exactly: its whole part and its six-digit fraction are
\* those of the on-chain value.
ExactAmounts ==
    conv.stage = "stored" =>
        conv.amount = [whole |-> <<conv.value[1], conv.value[2]>>, frac |-> conv.value[3]]

\* C20 The Confirmation Tracker never lowers a status: whatever height it
\* read, the write of processConfirmations leaves a row that is CONFIRMING
\* at CONFIRMING or CONFIRMED and a row that is PENDING at PENDING,
\* CONFIRMING or CONFIRMED.
TrackerNeverLowers ==
    [][\A p \in Scanners :
          (pc[p] = "update" /\ pc'[p] # "update") =>
              LET k == HandledRow(p).id
              IN  /\ rows[k].status = "CONFIRMING" => rows'[k].status \in {"CONFIRMING", "CONFIRMED"}
                  /\ rows[k].status = "PENDING"
                        => rows'[k].status \in {"PENDING", "CONFIRMING", "CONFIRMED"}]_vars

\* C21: when an invocation in which nothing failed returns, the chain height
\* being the one H it read when it started, every transfer that is PENDING or
\* CONFIRMING has stored confirmations H - blockNumber; this includes the
\* invocations that find no block range to scan
FreshConfirmations ==
    [][\A p \in Scanners :
          (/\ pc[p] # "idle" /\ pc'[p] = "idle"
           /\ ~loc[p].faulted
           /\ loc[p].currentBlock = height /\ heightIx' = heightIx) =>
             \A k \in 1..Len(rows') :
                 rows'[k].status \in {"PENDING", "CONFIRMING"} =>
                     rows'[k].confirmations = height - rows'[k].blockNumber]_vars

\* the steps of a creditUserDeposit call
CreditSteps == {"findUnique", "findUser", "transaction"}
\* the transfer of the creditUserDeposit call scanner p is in
CreditedKey(p) == KeyOf(rows[loc[p].pendingTxs[loc[p].j].id])

\* C22: no step of a creditUserDeposit call that does not apply the credit
\* (its reads, and its return of false: transfer already CREDITED, no user,
\* duplicate idempotency key, failed transaction) changes a ledger entry, a
\* balance, a transfer or an intent; a transfer that is CONFIRMED when the
\* call finds no user for it is CONFIRMED when the call returns
NotAppliedLeavesNoTrace ==
    [][\A p \in Scanners :
          (/\ pc[p] \in CreditSteps /\ pc'[p] # pc[p]
           /\ ~(pc[p] = "transaction" /\ ret'[p][CreditedKey(p)] = "applied")) =>
             /\ UNCHANGED <<ledger, balance, rows, intents>>
             /\ (/\ pc[p] = "findUser" /\ ret'[p][CreditedKey(p)] = "nouser"
                 /\ rows[loc[p].tx.id].status = "CONFIRMED") =>
                    rows'[loc[p].tx.id].status = "CONFIRMED"]_vars

\* creditUserDeposit has returned false for want of a user, on a duplicate
\* key and on a failed transaction, and the transfer nobody could be resolved
\* for is CONFIRMED, uncredited
NotAppliedLeavesNoTraceWitness ==
    /\ \E p \in Scanners : ret[p][KeyOf(EvC)] = "nouser"
    /\ \E p \in Scanners : \E e \in Keys : ret[p][e] = "duplicate"
    /\ \E p \in Scanners : \E e \in Keys : ret[p][e] = "error"
    /\ FindExisting(EvC) # 0
    /\ rows[FindExisting(EvC)].status = "CONFIRMED"
    /\ ~rows[FindExisting(EvC)].creditedAt
    /\ EntriesOf(EvC) = {}
\* what a row read as `old` is left as by processConfirmations at count c:
\* credited when it reaches the threshold and its user resolves
Advanced(k, old, c) ==
    IF c >= confirmationThreshold
    THEN IF rows[k].depositIntentId # 0 \/ rows[k].fromAddress \in registered
         THEN "CREDITED" ELSE "CONFIRMED"
    ELSE NewStatus(old, c)

IntentRank(status) ==
    CASE status = "PENDING" -> 0
      [] status = "DETECTED" -> 1
      [] status = "CREDITED" -> 2

\* C24: no step lowers the status of a deposit intent in the order
\* PENDING, DETECTED, CREDITED; an intent that is CREDITED stays CREDITED
IntentForwardOnly ==
    [][\A n \in 1..Len(intents) :
          IntentRank(intents'[n].status) >= IntentRank(intents[n].status)]_vars

\* C30: no two recorded transfers are linked to the same deposit intent
OneTransferPerIntent ==
    \A k, m \in 1..Len(rows) :
        (k # m /\ rows[k].depositIntentId # 0) =>
            rows[k].depositIntentId # rows[m].depositIntentId
\* the user a credit of row k is for: the user of the intent the row is
\* linked to, otherwise the user whose wallet is the sender
ResolvedUser(k) ==
    IF rows[k].depositIntentId # 0
    THEN intents[rows[k].depositIntentId].userId
    ELSE rows[k].fromAddress

\* C25: the ledger entry a crediting transaction appends is for the user of
\* the linked intent when the transfer has one, otherwise for the registered
\* user whose wallet is the sender; the balance the transaction writes is
\* that user's, it equals the entry's balanceAfter, and no other balance
\* changes
UserResolution ==
    [][\A p \in Scanners :
          (pc[p] = "transaction" /\ pc'[p] # "transaction" /\ Len(ledger') > Len(ledger)) =>
             LET e == ledger'[Len(ledger')]
                 u == ResolvedUser(e.referenceId)
             IN  /\ e.referenceId = loc[p].tx.id
                 /\ e.userId = u
                 /\ u \in registered
                 /\ balance'[u] = e.balanceAfter
                 /\ \A w \in Wallets \ {u} : balance'[w] = balance[w]]_vars

\* a transfer recorded with no intent is credited to the user of its sender's
\* wallet, and a transfer linked to an intent to the intent's user
UserResolutionWitness ==
    /\ \E k \in 1..Len(rows) : \E m \in 1..Len(ledger) :
           /\ rows[k].depositIntentId = 0 /\ rows[k].status = "CREDITED"
           /\ ledger[m].referenceId = k /\ ledger[m].userId = rows[k].fromAddress
           /\ balance[rows[k].fromAddress] > 0
    /\ \E k \in 1..Len(rows) : \E m \in 1..Len(ledger) :
           /\ rows[k].depositIntentId # 0 /\ rows[k].status = "CREDITED"
           /\ ledger[m].referenceId = k
           /\ ledger[m].userId = intents[rows[k].depositIntentId].userId
\* the state a run of processConfirmations at the current height leaves the
\* rows it selects in: each has the count and the status of that height
Settled ==
    \A k \in 1..Len(rows) :
        rows[k].status \in {"PENDING", "CONFIRMING"} =>
            /\ rows[k].confirmations = height - rows[k].blockNumber
            /\ rows[k].status = NewStatus(rows[k].status, rows[k].confirmations)

\* the steps of processConfirmations, creditUserDeposit included
TrackerSteps == {"findMany", "getConfirmations", "update"} \cup CreditSteps

\* the rows scanner p's run selected still have the status the run read
SnapshotCurrent(p) ==
    \A n \in 1..Len(loc[p].pendingTxs) :
        rows[loc[p].pendingTxs[n].id].status = loc[p].pendingTxs[n].status

\* C26: a run of processConfirmations at one height leaves the store
\* Settled, and no step of a run that works at that same height on a Settled
\* store changes a transfer's status or count, a ledger entry, a balance or
\* an intent, or calls creditUserDeposit: the second of two runs in a row at
\* one height is a no-op
TrackerIdempotent ==
    [][\A p \in Scanners :
          /\ (/\ pc[p] = "getConfirmations" /\ pc'[p] = "idle"
              /\ loc[p].currentBlock = height /\ heightIx' = heightIx) => Settled'
          /\ (/\ pc[p] \in TrackerSteps /\ pc'[p] # pc[p]
              /\ heightIx' = heightIx
              /\ Settled /\ SnapshotCurrent(p)
              /\ (pc[p] = "update" =>
                     loc[p].confirmations = height - loc[p].pendingTxs[loc[p].j].blockNumber))
                 => /\ UNCHANGED <<rows, ledger, balance, intents>>
                    /\ pc'[p] \notin CreditSteps
                    /\ Settled' /\ SnapshotCurrent(p)']_vars

\* the second run at one height is under way, about to write a row's count
\* again, after a first run that credited a transfer
TrackerIdempotentWitness ==
    \E p \in Scanners :
        /\ passes[p] = 2 /\ pc[p] = "update"
        /\ Settled
        /\ loc[p].confirmations = height - loc[p].pendingTxs[loc[p].j].blockNumber
        /\ ledger # <<>>
\* C27: a ledger entry with the key deposit:{txHash}:{logIndex} exists
\* exactly when the recorded transfer (txHash, logIndex) is CREDITED, and a
\* transfer has a creditedAt exactly when it is CREDITED
LedgerStatusAgreement ==
    \A k \in 1..Len(rows) :
        /\ LedgerKeyTaken(DepositKey(rows[k])) <=> rows[k].status = "CREDITED"
        /\ rows[k].creditedAt <=> rows[k].status = "CREDITED"

\* C28: a CONFIRMED or CREDITED transfer has a stored count of at least the
\* threshold, a CONFIRMING one of at least 6
StatusMatchesCount ==
    \A k \in 1..Len(rows) :
        /\ rows[k].status \in {"CONFIRMED", "CREDITED"} =>
               rows[k].confirmations >= confirmationThreshold
        /\ rows[k].status = "CONFIRMING" =>
               rows[k].confirmations >= ConfirmingThreshold
\* the ledger entries of user w
UserEntries(w) == {k \in 1..Len(ledger) : ledger[k].userId = w}

\* C29: for every user with a ledger entry, the balanceAfter of the user's
\* most recently committed entry is the user's creditBalance
LatestSnapshot ==
    \A w \in Wallets :
        UserEntries(w) # {} => ledger[Max(UserEntries(w))].balanceAfter = balance[w]

\* a user has deposit, purchase and refund entries, and a stale read has
\* already made the balance differ from the sum of the entries
LatestSnapshotWitness ==
    \E w \in Wallets :
        /\ \A type \in {"DEPOSIT", "PURCHASE", "REFUND"} :
               \E k \in UserEntries(w) : ledger[k].type = type
        /\ balance[w] # LedgerSum(w)
====
